---- MODULE Spec2Model ----
(***************************************************************************)
(* Request logging middleware for Iron (src/src/lib.rs).                   *)
(*                                                                         *)
(* A pair of Logger middlewares shares one optional Format.  The first is  *)
(* linked as BeforeMiddleware and stamps each request with a StartTime;    *)
(* the second is linked as AfterMiddleware and renders one line per        *)
(* request from the Format, the request, the response and the elapsed time.*)
(*                                                                         *)
(* Conventions of the model                                                *)
(*   Option<T>     a sequence of length <= 1: <<>> is None, <<v>> is Some  *)
(*   IronResult<T> [tag |-> "Ok" | "Err", val |-> ...]; a panic of the     *)
(*                 hook is the outcome [tag |-> "Panic", val |-> <<>>]     *)
(*   time::Tm      microseconds since 2015-01-01T00:00:00, offset +0000    *)
(*   Duration      microseconds, signed                                    *)
(*   f64 ms value  thousandths of a millisecond, signed (exact arithmetic) *)
(* TLC integers are 32 bits wide, so nanosecond counts are held divided by *)
(* 1000: num_nanoseconds(d) is the total nanoseconds of d over 1000, and   *)
(* the code's division by 1000000.0 leaves that number as thousandths of a *)
(* millisecond.  Duration::num_nanoseconds overflows i64 only beyond 292   *)
(* years, so its None branch (unwrap_or(0)) is out of the model's range.   *)
(***************************************************************************)
EXTENDS Integers, Sequences, FiniteSets, TLC

\* Number of requests the host serves concurrently.
NumRequests == 2

Requests == 1..NumRequests

None == <<>>
Some(v) == <<v>>

Ok(v) == [tag |-> "Ok", val |-> v]
Err(e) == [tag |-> "Err", val |-> e]
Panic == [tag |-> "Panic", val |-> <<>>]
Unit == [unit |-> TRUE]

\* thousandths of a millisecond in one second / in one millisecond
MicrosPerSecond == 1000000
MicrosPerMilli == 1000

(***************************************************************************)
(* Text helpers: Rust's Display for integers and for f64.                  *)
(***************************************************************************)
Digit(d) == <<"0", "1", "2", "3", "4", "5", "6", "7", "8", "9">>[d + 1]

RECURSIVE Dec(_)
Dec(n) == IF n < 10 THEN Digit(n) ELSE Dec(n \div 10) \o Digit(n % 10)

\* {:0w}: n in decimal, left-padded with zeros to w digits (n < 10^w)
RECURSIVE Pad(_, _)
Pad(n, w) == IF w = 0 THEN "" ELSE Pad(n \div 10, w - 1) \o Digit(n % 10)

\* the w-digit fraction n with its trailing zeros dropped
RECURSIVE Fraction(_, _)
Fraction(n, w) == IF n = 0 THEN ""
                  ELSE IF n % 10 = 0 THEN Fraction(n \div 10, w - 1)
                  ELSE Pad(n, w)

Abs(n) == IF n < 0 THEN -n ELSE n

\* format!("{}", x) of an f64 x held as v thousandths: no exponent, no
\* trailing ".0", the shortest digits that read back as x
FormatF64(v) ==
    LET whole == Abs(v) \div MicrosPerMilli
        frac == Abs(v) % MicrosPerMilli
    IN (IF v < 0 THEN "-" ELSE "") \o Dec(whole)
       \o (IF frac = 0 THEN "" ELSE "." \o Fraction(frac, 3))

RECURSIVE Concat(_)
Concat(strings) == IF strings = <<>> THEN ""
                   ELSE Head(strings) \o Concat(Tail(strings))

(***************************************************************************)
(* format::FormatText and format::Format (declared in src/format.rs, used  *)
(* by lib.rs lines 12-13 and 60-74).                                       *)
(***************************************************************************)
Str(string) == [tag |-> "Str", string |-> string]
Method == [tag |-> "Method", string |-> ""]
URI == [tag |-> "URI", string |-> ""]
Status == [tag |-> "Status", string |-> ""]
ResponseTime == [tag |-> "ResponseTime", string |-> ""]
RemoteAddr == [tag |-> "RemoteAddr", string |-> ""]
RequestTime == [tag |-> "RequestTime", string |-> ""]

FormatUnit(text) == [text |-> text]

\* Format::default(): {method} {uri} -> {status} ({response-time} ms)
FormatDefault ==
    << FormatUnit(Method), FormatUnit(Str(" ")), FormatUnit(URI),
       FormatUnit(Str(" -> ")), FormatUnit(Status), FormatUnit(Str(" (")),
       FormatUnit(ResponseTime), FormatUnit(Str(" ms)")) >>

(***************************************************************************)
(* The format compiler: one left-to-right scan of the template, given as a *)
(* sequence of characters.                                                 *)
(***************************************************************************)
FieldKind(token) ==
    CASE token = "method" -> Some(Method)
      [] token = "uri" -> Some(URI)
      [] token = "status" -> Some(Status)
      [] token = "response-time" -> Some(ResponseTime)
      [] token = "remote-addr" -> Some(RemoteAddr)
      [] token = "request-time" -> Some(RequestTime)
      [] OTHER -> None

\* flush the literal buffer as a Str unit, unless it is empty
Flush(units, buffer) ==
    IF buffer = "" THEN units ELSE Append(units, FormatUnit(Str(buffer)))

\* index of the first "}" at or after i, 0 when there is none
RECURSIVE ClosingBrace(_, _)
ClosingBrace(template, i) ==
    IF i > Len(template) THEN 0
    ELSE IF template[i] = "}" THEN i
    ELSE ClosingBrace(template, i + 1)

RECURSIVE Scan(_, _, _, _)
Scan(template, i, buffer, units) ==
    IF i > Len(template) THEN [ok |-> TRUE, format |-> Flush(units, buffer), error |-> ""]
    ELSE IF template[i] = "{" THEN
        LET j == ClosingBrace(template, i + 1) IN
        IF j = 0 THEN [ok |-> FALSE, format |-> <<>>, error |-> "UnterminatedPlaceholder"]
        ELSE LET token == Concat(SubSeq(template, i + 1, j - 1))
                 kind == FieldKind(token)
             IN IF kind = None
                THEN [ok |-> FALSE, format |-> <<>>, error |-> "UnknownFieldToken(" \o token \o ")"]
                ELSE Scan(template, j + 1, "", Append(Flush(units, buffer), FormatUnit(kind[1])))
    ELSE Scan(template, i + 1, buffer \o template[i], units)

compile(template) == Scan(template, 1, "", <<>>)

\* The templates the service may be configured with.
TemplateEmpty == <<>>
TemplateXMethodY == <<"X", "{", "m", "e", "t", "h", "o", "d", "}", "Y">>
TemplateStatus == <<"{", "s", "t", "a", "t", "u", "s", "}">>
TemplateResponseTime ==
    <<"{", "r", "e", "s", "p", "o", "n", "s", "e", "-", "t", "i", "m", "e", "}">>
TemplateTimeAddr ==
    <<"{", "r", "e", "q", "u", "e", "s", "t", "-", "t", "i", "m", "e", "}", " ",
      "{", "r", "e", "m", "o", "t", "e", "-", "a", "d", "d", "r", "}">>
TemplateDefault ==
    <<"{", "m", "e", "t", "h", "o", "d", "}", " ", "{", "u", "r", "i", "}",
      " ", "-", ">", " ", "{", "s", "t", "a", "t", "u", "s", "}", " ", "(",
      "{", "r", "e", "s", "p", "o", "n", "s", "e", "-", "t", "i", "m", "e", "}",
      " ", "m", "s", ")">>
TemplateUnknown == <<"{", "u", "n", "k", "n", "o", "w", "n", "}">>
TemplateUnterminated == <<"{", "m", "e", "t", "h", "o", "d">>

Templates == { TemplateEmpty, TemplateXMethodY, TemplateStatus,
               TemplateResponseTime, TemplateTimeAddr,
               TemplateUnknown, TemplateUnterminated }

\* The Option<Format> the embedding application passes to Logger::new: None,
\* or the Format of a template that compiled (a malformed template stops the
\* service at configuration time).
Configured(config) ==
    IF config = None THEN None ELSE Some(compile(config[1]).format)

Configs == {None} \cup {Some(t) : t \in {u \in Templates : compile(u).ok}}

(***************************************************************************)
(* The host's values: requests, responses, errors and the clock.           *)
(***************************************************************************)
RequestMethods == <<"Get", "Post">>
RequestPaths == <<"", "items/7">>

\* The request the host hands to the chain for the r-th connection.
NewRequest(r) ==
    [ method |-> RequestMethods[((r - 1) % 2) + 1],
      url |-> [scheme |-> "http", host |-> "localhost", port |-> 3000,
               path |-> RequestPaths[((r - 1) % 2) + 1]],
      remote_addr |-> [ip |-> "127.0.0.1", port |-> 40000 + r],
      extensions |-> [StartTime |-> None] ]

\* Responses a handler may produce: Response::new() has no status.
Responses == { [status |-> None], [status |-> Some("Ok")] }

\* Errors a middleware or the handler may raise, each with its response.
IronErrors == { [error |-> "NoRoute", response |-> [status |-> Some("NotFound")]] }

\* Readings of time::now(), the wall clock, when a request enters the chain
\* and when it reaches Logger::log: elapsed times of 0, 12.5, 2487.5 and
\* 2500 ms.
EntryInstants == {0, 12500}
ExitInstants == {12500, 2500000}

DisplayMethod(method) ==
    CASE method = "Get" -> "GET"
      [] method = "Post" -> "POST"

DisplayUrl(url) ==
    url.scheme \o "://" \o url.host \o ":" \o Dec(url.port) \o "/" \o url.path

DisplayStatus(status) ==
    CASE status = "Ok" -> "200 OK"
      [] status = "NotFound" -> "404 Not Found"

DisplaySocketAddr(addr) == addr.ip \o ":" \o Dec(addr.port)

(***************************************************************************)
(* time::Tm::strftime and time::Duration.                                  *)
(***************************************************************************)
\* variant: a pattern with a specifier strftime does not know
RequestTimePattern_bad_specifier ==
    <<"%Y", "-", "%m", "-", "%d", "T", "%H", ":", "%M", ":", "%S", ".", "%Q", "Z", "%z">>

\* "%Y-%m-%dT%H:%M:%S.%fZ%z", one item per specifier or literal
RequestTimePattern ==
    <<"%Y", "-", "%m", "-", "%d", "T", "%H", ":", "%M", ":", "%S", ".", "%f", "Z", "%z">>

PatternLiterals == {"-", "T", ":", ".", "Z", " "}

\* one item of a pattern: None for a specifier strftime does not know
StrftimeItem(tm, item) ==
    LET secs == tm \div MicrosPerSecond
        micros == tm % MicrosPerSecond
    IN CASE item \in PatternLiterals -> Some(item)
         [] item = "%Y" -> Some(Dec(2015))
         [] item = "%m" -> Some(Pad(1, 2))
         [] item = "%d" -> Some(Pad(1, 2))
         [] item = "%H" -> Some(Pad(secs \div 3600, 2))
         [] item = "%M" -> Some(Pad((secs % 3600) \div 60, 2))
         [] item = "%S" -> Some(Pad(secs % 60, 2))
         [] item = "%f" -> Some(Pad(micros, 6) \o "000")
         [] item = "%z" -> Some("+0000")
         [] OTHER -> None

\* Result<TmFmt, ParseError> shown with Display: None is Err
strftime(tm, pattern) ==
    LET items == [i \in 1..Len(pattern) |-> StrftimeItem(tm, pattern[i])]
    IN IF \E i \in 1..Len(pattern) : items[i] = None THEN None
       ELSE Some(Concat([i \in 1..Len(pattern) |-> items[i][1]]))

\* whole seconds of a Duration, rounded towards zero
num_seconds(duration) ==
    IF duration >= 0 THEN duration \div MicrosPerSecond
    ELSE -((-duration) \div MicrosPerSecond)

\* Option<i64>: the TOTAL nanoseconds of a Duration (over 1000, see above)
num_nanoseconds(duration) == Some(duration)

unwrap_or(option, default) == IF option = None THEN default ELSE option[1]

\* an integer number of milliseconds as f64
AsF64(n) == n * MicrosPerMilli

\* (n as f64) / 1000000.0 for n nanoseconds (held over 1000): milliseconds
NanosToMillisF64(n) == n

(***************************************************************************)
(* Logger                                                                   *)
(***************************************************************************)
\* variant: the format is moved into the first Logger only
new_second_default(format) == << [format |-> format], [format |-> None] >>

\* Logger::new
new(format) == << [format |-> format], [format |-> format] >>

\* variant: an absent format falls back to the empty Format
unwrap_or_empty(format) == IF format = None THEN <<>> ELSE format[1]

\* Option<Format>::unwrap_or_default
unwrap_or_default(format) == IF format = None THEN FormatDefault ELSE format[1]

\* variant: one slot for the whole process instead of one per request
initialise_shared(self, reqs, r, now) ==
    [q \in DOMAIN reqs |-> [reqs[q] EXCEPT !.extensions.StartTime = Some(now)]]

\* Logger::initialise: req is the r-th of the requests in flight
initialise(self, reqs, r, now) ==
    [reqs EXCEPT ![r].extensions.StartTime = Some(now)]

\* variant: a missing status renders as nothing
render_Status_or_empty(res) ==
    IF res.status # None THEN DisplayStatus(res.status[1]) ELSE ""

\* the Status arm of render
render_Status(res) ==
    IF res.status # None THEN DisplayStatus(res.status[1])
    ELSE "<missing status code>"

\* the ResponseTime arm of render
render_ResponseTime(response_time_ms) == FormatF64(response_time_ms) \o " ms"

\* the render closure of Logger::log: Some(text), or None when it panics
render(text, req, res, response_time_ms, entry_time) ==
    CASE text.tag = "Str" -> Some(text.string)
      [] text.tag = "Method" -> Some(DisplayMethod(req.method))
      [] text.tag = "URI" -> Some(DisplayUrl(req.url))
      [] text.tag = "Status" -> Some(render_Status(res))
      [] text.tag = "ResponseTime" -> Some(render_ResponseTime(response_time_ms))
      [] text.tag = "RemoteAddr" -> Some(DisplaySocketAddr(req.remote_addr))
      [] text.tag = "RequestTime" -> strftime(entry_time, RequestTimePattern)

\* variant: the texts are joined with a space
RECURSIVE join_spaced(_, _)
join_spaced(strings, sep) ==
    IF strings = <<>> THEN ""
    ELSE IF Len(strings) = 1 THEN strings[1]
    ELSE strings[1] \o " " \o join_spaced(Tail(strings), sep)

\* Vec<String>::join
RECURSIVE join(_, _)
join(strings, sep) ==
    IF strings = <<>> THEN ""
    ELSE IF Len(strings) = 1 THEN strings[1]
    ELSE strings[1] \o sep \o join(Tail(strings), sep)

\* the elapsed milliseconds Logger::log computes from a Duration
ResponseTimeMs(response_time) ==
    AsF64(num_seconds(response_time) * 1000)
        + NanosToMillisF64(unwrap_or(num_nanoseconds(response_time), 0))

\* Logger::log; now is the reading of time::now() on line 55
log(self, req, res, now) ==
    LET slot == req.extensions.StartTime IN
    IF slot = None
    THEN [ret |-> Panic, emitted |-> <<>>, response_time_ms |-> None, format |-> None]
    ELSE
        LET entry_time == slot[1]
            response_time == now - entry_time
            response_time_ms == ResponseTimeMs(response_time)
            format == unwrap_or_default(self.format)
            rendered == [i \in 1..Len(format) |->
                            render(format[i].text, req, res, response_time_ms, entry_time)]
        IN IF \E i \in 1..Len(format) : rendered[i] = None
           THEN [ret |-> Panic, emitted |-> <<>>,
                 response_time_ms |-> Some(response_time_ms), format |-> Some(format)]
           ELSE [ret |-> Ok(Unit),
                 emitted |-> << [level |-> "info",
                                 line |-> join([i \in 1..Len(format) |-> rendered[i][1]], "")] >>,
                 response_time_ms |-> Some(response_time_ms), format |-> Some(format)]

\* impl BeforeMiddleware for Logger
BeforeMiddleware_before(self, reqs, r, now) ==
    [reqs |-> initialise(self, reqs, r, now), ret |-> Ok(Unit)]

\* variant: catch hands the error on without stamping the request
BeforeMiddleware_catch_no_initialise(self, reqs, r, err, now) ==
    [reqs |-> reqs, ret |-> Err(err)]

BeforeMiddleware_catch(self, reqs, r, err, now) ==
    [reqs |-> initialise(self, reqs, r, now), ret |-> Err(err)]

\* variant: after fills in a status of its own
AfterMiddleware_after_sets_status(self, req, res, now) ==
    LET logged == log(self, req, res, now)
    IN [ret |-> IF logged.ret = Ok(Unit) THEN Ok([res EXCEPT !.status = Some("Ok")])
                ELSE logged.ret,
        logged |-> logged]

\* variant: catch hands the error on without logging
AfterMiddleware_catch_no_log(self, req, err, now) ==
    [ret |-> Err(err),
     logged |-> [ret |-> Ok(Unit), emitted |-> <<>>, response_time_ms |-> None,
                 format |-> None]]

\* impl AfterMiddleware for Logger; try! hands on anything but Ok
AfterMiddleware_after(self, req, res, now) ==
    LET logged == log(self, req, res, now)
    IN [ret |-> IF logged.ret = Ok(Unit) THEN Ok(res) ELSE logged.ret, logged |-> logged]

AfterMiddleware_catch(self, req, err, now) ==
    LET logged == log(self, req, err.response, now)
    IN [ret |-> IF logged.ret = Ok(Unit) THEN Err(err) ELSE logged.ret, logged |-> logged]

(***************************************************************************)
(* The state: the Logger pair, the requests in flight, and what each hook  *)
(* was given and gave back.                                                *)
(***************************************************************************)
VARIABLES
    config,            \* the optional template the service was started with
    before_logger,     \* the Logger linked as BeforeMiddleware
    after_logger,      \* the Logger linked as AfterMiddleware
    req,               \* the requests, each with its extensions
    stage,             \* where the chain is with each request
    before_call,       \* Option: the BeforeMiddleware hook called and its argument
    before_ret,        \* Option: what that hook returned
    after_call,        \* Option: the AfterMiddleware hook called and its argument
    after_ret,         \* Option: what that hook returned
    log_ret,           \* Option: what the request's log call returned
    sink,              \* the records handed to the log facility, per request
    started_at,        \* Option: time::now() as read by the request's own before hook
    finished_at,       \* Option: time::now() as read by the request's own log call
    response_time_ms,  \* Option: response_time_ms of the request's log call
    rendered_with      \* Option: the unit sequence the request's log call iterated

vars == << config, before_logger, after_logger, req, stage, before_call, before_ret,
           after_call, after_ret, log_ret, sink, started_at, finished_at, response_time_ms,
           rendered_with >>

Init ==
    /\ config \in Configs
    /\ before_logger = new(Configured(config))[1]
    /\ after_logger = new(Configured(config))[2]
    /\ req = [r \in Requests |-> NewRequest(r)]
    /\ stage = [r \in Requests |-> "new"]
    /\ before_call = [r \in Requests |-> None]
    /\ before_ret = [r \in Requests |-> None]
    /\ after_call = [r \in Requests |-> None]
    /\ after_ret = [r \in Requests |-> None]
    /\ log_ret = [r \in Requests |-> None]
    /\ sink = [r \in Requests |-> <<>>]
    /\ started_at = [r \in Requests |-> None]
    /\ finished_at = [r \in Requests |-> None]
    /\ response_time_ms = [r \in Requests |-> None]
    /\ rendered_with = [r \in Requests |-> None]

\* what both BeforeMiddleware hooks leave in the state
BeforeDone(r, hook, err, now, result) ==
    /\ req' = result.reqs
    /\ stage' = [stage EXCEPT ![r] = "handling"]
    /\ before_call' = [before_call EXCEPT ![r] = Some([hook |-> hook, err |-> err])]
    /\ before_ret' = [before_ret EXCEPT ![r] = Some(result.ret)]
    /\ started_at' = [started_at EXCEPT ![r] = Some(now)]
    /\ UNCHANGED << config, before_logger, after_logger, after_call, after_ret, log_ret, sink,
                    finished_at, response_time_ms, rendered_with >>

\* what both AfterMiddleware hooks leave in the state
AfterDone(r, hook, arg, now, result) ==
    /\ stage' = [stage EXCEPT ![r] = "done"]
    /\ after_call' = [after_call EXCEPT ![r] = Some([hook |-> hook, arg |-> arg])]
    /\ after_ret' = [after_ret EXCEPT ![r] = Some(result.ret)]
    /\ log_ret' = [log_ret EXCEPT ![r] = Some(result.logged.ret)]
    /\ sink' = [sink EXCEPT ![r] = @ \o result.logged.emitted]
    /\ finished_at' = [finished_at EXCEPT ![r] = Some(now)]
    /\ response_time_ms' = [response_time_ms EXCEPT ![r] = result.logged.response_time_ms]
    /\ rendered_with' = [rendered_with EXCEPT ![r] = result.logged.format]
    /\ UNCHANGED << config, before_logger, after_logger, req, before_call, before_ret,
                    started_at >>

\* The chain reaches the Logger's BeforeMiddleware with no error so far.
CallBefore(r) ==
    /\ stage[r] = "new"
    /\ \E now \in EntryInstants :
          BeforeDone(r, "before", None, now,
                     BeforeMiddleware_before(before_logger, req, r, now))

\* The chain reaches it after an earlier BeforeMiddleware failed with err.
CallBeforeCatch(r) ==
    /\ stage[r] = "new"
    /\ \E now \in EntryInstants, err \in IronErrors :
          BeforeDone(r, "catch", Some(err), now,
                     BeforeMiddleware_catch(before_logger, req, r, err, now))

\* The chain reaches the Logger's AfterMiddleware with the response res.
CallAfter(r) ==
    /\ stage[r] = "handling"
    /\ \E now \in ExitInstants, res \in Responses :
          AfterDone(r, "after", res, now,
                    AfterMiddleware_after(after_logger, req[r], res, now))

\* The chain reaches it with the error err of the handler or a middleware.
CallAfterCatch(r) ==
    /\ stage[r] = "handling"
    /\ \E now \in ExitInstants, err \in IronErrors :
          AfterDone(r, "catch", err, now,
                    AfterMiddleware_catch(after_logger, req[r], err, now))

Next ==
    \E r \in Requests :
        \/ CallBefore(r)
        \/ CallBeforeCatch(r)
        \/ CallAfter(r)
        \/ CallAfterCatch(r)

Spec == Init /\ [][Next]_vars

(***************************************************************************)
(* Properties                                                              *)
(***************************************************************************)
Done(r) == stage[r] = "done"

\* the line of the one record a finished request left in the sink
Line(r) == sink[r][1].line

\* the response Logger::log was given for the request
ResponseOf(r) ==
    IF after_call[r][1].hook = "after" THEN after_call[r][1].arg
    ELSE after_call[r][1].arg.response

\* the true elapsed time between the request's two clock readings, as f64 ms
ElapsedMs(r) == finished_at[r][1] - started_at[r][1]

\* C1: once the chain has called a BeforeMiddleware hook of the Logger for a
\* request (before, or catch after an earlier failure), the request's
\* StartTime slot holds a value, up to and after the read in log: the read
\* never finds the slot empty.
C1_StartTimeWrittenBeforeRead ==
    \A r \in Requests :
        stage[r] # "new" => req[r].extensions.StartTime # None

\* a request that entered through catch and one that entered through before
\* have both been read by log
C1_Witness ==
    \E r, q \in Requests :
        /\ Done(r) /\ before_call[r][1].hook = "catch"
        /\ Done(q) /\ before_call[q][1].hook = "before"

\* C2: Logger::log returns Ok(()) for every request the chain brings to the
\* AfterMiddleware, whatever the Format (the empty one included) and the
\* response (one without a status included): it neither fails nor panics.
C2_LogReturnsOk ==
    \A r \in Requests : Done(r) => log_ret[r] = Some(Ok(Unit))

\* log has run with the empty Format, and with a response without a status
\* under a Format that renders the request time
C2_Witness ==
    \/ /\ config = Some(TemplateEmpty)
       /\ \E r \in Requests : Done(r) /\ ResponseOf(r).status = None
    \/ /\ config = Some(TemplateTimeAddr)
       /\ \A r \in Requests : Done(r) /\ ResponseOf(r).status = None

\* C3: a request that reached the AfterMiddleware, through after or through
\* catch, has exactly one record in the sink, at info level; a request that
\* has not reached it has none.
C3_ExactlyOneLine ==
    \A r \in Requests :
        /\ Done(r) => Len(sink[r]) = 1 /\ sink[r][1].level = "info"
        /\ ~Done(r) => sink[r] = <<>>

\* one request finished through after and one through catch
C3_Witness ==
    \E r, q \in Requests :
        /\ Done(r) /\ after_call[r][1].hook = "after" /\ Len(sink[r]) = 1
        /\ Done(q) /\ after_call[q][1].hook = "catch" /\ Len(sink[q]) = 1

\* C4: response_time_ms is the true elapsed time in milliseconds (whole
\* seconds x 1000 plus the sub-second part), and an elapsed time of exactly
\* 2 s 500,000,000 ns renders through the ResponseTime unit as "2500 ms".
C4_ResponseTimeIsElapsed ==
    \A r \in Requests :
        Done(r) =>
            /\ response_time_ms[r] = Some(ElapsedMs(r))
            /\ (config = Some(TemplateResponseTime) /\ ElapsedMs(r) = 2500000)
                   => Line(r) = "2500 ms"

\* C5: the line is the texts of the Format's units in order with nothing
\* between them: "" for the empty Format, a Str verbatim, "XGETY" for
\* X{method}Y and a GET request.
C5_LineIsConcatenation ==
    \A r \in Requests :
        Done(r) =>
            /\ Line(r) = Concat([i \in 1..Len(rendered_with[r][1]) |->
                                    render(rendered_with[r][1][i].text, req[r], ResponseOf(r),
                                           response_time_ms[r][1],
                                           req[r].extensions.StartTime[1])[1]])
            /\ config = Some(TemplateEmpty) => Line(r) = ""
            /\ config = Some(TemplateXMethodY) =>
                   /\ rendered_with[r][1] =
                          << FormatUnit(Str("X")), FormatUnit(Method), FormatUnit(Str("Y")) >>
                   /\ req[r].method = "Get" => Line(r) = "XGETY"
                   /\ req[r].method = "Post" => Line(r) = "XPOSTY"

C5_Witness ==
    \E r \in Requests :
        /\ Done(r) /\ config = Some(TemplateXMethodY)
        /\ req[r].method = "Get" /\ Line(r) = "XGETY"

\* C6: the Status unit renders the response's status, or exactly
\* "<missing status code>" when the response has none; a missing status
\* leaves log returning Ok and the other units of the line as they are.
C6_StatusOrSentinel ==
    \A r \in Requests :
        Done(r) =>
            /\ config = Some(TemplateStatus) =>
                   /\ ResponseOf(r).status = None => Line(r) = "<missing status code>"
                   /\ ResponseOf(r).status = Some("Ok") => Line(r) = "200 OK"
                   /\ ResponseOf(r).status = Some("NotFound") => Line(r) = "404 Not Found"
            /\ (config = None /\ ResponseOf(r).status = None) =>
                   /\ log_ret[r] = Some(Ok(Unit))
                   /\ Line(r) = DisplayMethod(req[r].method) \o " " \o DisplayUrl(req[r].url)
                                \o " -> <missing status code> ("
                                \o FormatF64(response_time_ms[r][1]) \o " ms ms)"

C6_Witness ==
    \E r \in Requests :
        /\ Done(r) /\ config = Some(TemplateStatus)
        /\ ResponseOf(r).status = None /\ Line(r) = "<missing status code>"

\* C7: Loggers built by Logger::new(None) hold no format and render every
\* request with the Default Format, whose units are those of the compiled
\* template "{method} {uri} -> {status} ({response-time} ms)".
C7_NoneSelectsDefault ==
    /\ compile(TemplateDefault) = [ok |-> TRUE, format |-> FormatDefault, error |-> ""]
    /\ config = None =>
           /\ after_logger.format = None
           /\ \A r \in Requests :
                  Done(r) =>
                      /\ rendered_with[r] = Some(compile(TemplateDefault).format)
                      /\ Line(r) = DisplayMethod(req[r].method) \o " "
                                   \o DisplayUrl(req[r].url) \o " -> "
                                   \o render_Status(ResponseOf(r)) \o " ("
                                   \o render_ResponseTime(response_time_ms[r][1]) \o " ms)"

C7_Witness ==
    /\ config = None
    /\ \E r \in Requests :
           /\ Done(r) /\ ResponseOf(r).status = Some("Ok") /\ ElapsedMs(r) = 12500
           /\ Line(r) = "GET http://localhost:3000/ -> 200 OK (12.5 ms ms)"

\* C8: with several requests in flight, a request's StartTime slot holds the
\* clock reading of its own before hook, and its line shows the request time
\* and the elapsed time computed from that reading and no other.
C8_OwnStartTime ==
    \A r \in Requests :
        /\ stage[r] # "new" => req[r].extensions.StartTime = started_at[r]
        /\ Done(r) =>
               /\ config = Some(TemplateTimeAddr) =>
                      Line(r) = strftime(started_at[r][1], RequestTimePattern)[1] \o " "
                                \o DisplaySocketAddr(req[r].remote_addr)
               /\ config = Some(TemplateResponseTime) =>
                      Line(r) = render_ResponseTime(
                                    ResponseTimeMs(finished_at[r][1] - started_at[r][1]))

\* two requests that started at different readings have both been logged,
\* each with its own request time
C8_Witness ==
    \E r, q \in Requests :
        /\ config = Some(TemplateTimeAddr)
        /\ Done(r) /\ started_at[r] = Some(0)
        /\ Line(r) = "2015-01-01T00:00:00.000000000Z+0000 127.0.0.1:40001"
        /\ Done(q) /\ started_at[q] = Some(12500)
        /\ Line(q) = "2015-01-01T00:00:00.012500000Z+0000 127.0.0.1:40002"

\* C9: whatever hooks have run, both Loggers hold the format given to
\* Logger::new, and every request was rendered with that unit sequence.
C9_FormatImmutable ==
    /\ before_logger.format = Configured(config)
    /\ after_logger.format = Configured(config)
    /\ \A r \in Requests :
           Done(r) => rendered_with[r] =
                          Some(IF config = None THEN FormatDefault
                               ELSE compile(config[1]).format)

C9_Witness ==
    /\ config = Some(TemplateTimeAddr)
    /\ \A r \in Requests :
           /\ Done(r)
           /\ rendered_with[r] = Some(<< FormatUnit(RequestTime), FormatUnit(Str(" ")),
                                         FormatUnit(RemoteAddr) >>)

\* C10: before returns Ok, both catch hooks return the error they were given,
\* after returns Ok with the response it was given, and of the request only
\* the StartTime slot changes.
C10_OutcomeUnchanged ==
    \A r \in Requests :
        /\ before_call[r] # None =>
               before_ret[r] = Some(IF before_call[r][1].hook = "before" THEN Ok(Unit)
                                    ELSE Err(before_call[r][1].err[1]))
        /\ after_call[r] # None =>
               after_ret[r] = Some(IF after_call[r][1].hook = "after"
                                   THEN Ok(after_call[r][1].arg)
                                   ELSE Err(after_call[r][1].arg))
        /\ [req[r] EXCEPT !.extensions.StartTime = None] = NewRequest(r)

C10_Witness ==
    \E r, q \in Requests :
        /\ Done(r) /\ before_call[r][1].hook = "catch" /\ after_call[r][1].hook = "after"
        /\ after_call[r][1].arg.status = None
        /\ Done(q) /\ before_call[q][1].hook = "before" /\ after_call[q][1].hook = "catch"

====
